---------------------------- MODULE Spec2Model ----------------------------
(***************************************************************************)
(* A model of pyvcpkg.py / deps.py: the Triplet value type, the VcPkg      *)
(* wrapper around the package-manager executable and the version-control   *)
(* client, the command-line driver main(), and the post-copy fix-ups.      *)
(*                                                                         *)
(* Strings are sequences of letters.  The letters of the strings the model *)
(* enumerates are taken from small alphabets of chunks ("x64", "windows",  *)
(* "-", ...) none of which is a prefix of another, so two sequences are    *)
(* equal exactly when the strings they spell are equal.                    *)
(***************************************************************************)
EXTENDS Integers, Sequences, FiniteSets, TLC

VARIABLES
    \* ---- Triplet harness
    tpc,              \* "parse" | "construct" | "idle": which scenario runs
    triplet_string,   \* the argument of Triplet.from_string
    t1, t2,           \* the objects under test (NoObject until built)
    result,           \* outcome of the last Triplet method call
    \* ---- VcPkg.list_installed
    lpc,              \* "idle" | "run" | "loop" | "returned" | "raised"
    nlines,           \* number of output lines the loop has consumed
    line,             \* the output line consumed last
    name_variations,  \* the dict built so far: name -> set of (triplet, version)
    lexc,             \* the exception that left list_installed ("none": none)
    \* ---- main() and the VcPkg methods it calls
    argv,             \* the command line: the options given and the action
    options,          \* the namespace parse_args returns
    triplets,         \* the list of triplets main builds
    mpc,              \* the position in main
    status,           \* "running" | "done" | "usage" | "raised"
    exc,              \* the exception that ended the run ("none": none)
    vcdir,            \* vcpkg_path.exists()
    vcexe,            \* exe_path.exists()
    log,              \* the external commands run so far: [cmd, returncode]
    ti, di,           \* loop positions: triplet; dependency or command
    snap,             \* vcdir and vcexe when build_vcpkg was called
    prev,             \* whether the run before ended bootstrapped by its
                      \* build_vcpkg (clone and bootstrap both run, both ok)
    \* ---- the fix-ups of deps.py
    fix_dep,          \* the dependency whose fix-up is applied
    orig_files,       \* the directory before the first application
    before_files,     \* the directory before the latest application
    files,            \* the directory: path -> content (NoFile: no such file)
    napplied,         \* how often the fix-up has been applied
    fexc,             \* the exception the latest application raised
    \* ---- the output directory of copy and rmcopy
    outfs             \* name of a destination -> [exists, tree]

tripVars == <<tpc, triplet_string, t1, t2, result>>
listVars == <<lpc, nlines, line, name_variations, lexc>>

mainVars == <<argv, options, triplets, mpc, status, exc, vcdir, vcexe, log,
              ti, di, snap, prev>>

fixVars == <<fix_dep, orig_files, before_files, files, napplied, fexc>>

vars == <<tripVars, listVars, mainVars, fixVars, outfs>>

notTripVars == <<listVars, mainVars, fixVars, outfs>>
notListVars == <<tripVars, mainVars, fixVars, outfs>>
notMainVars == <<tripVars, listVars, fixVars, outfs>>
notFixVars == <<tripVars, listVars, mainVars, outfs>>
notCopyVars == <<tripVars, listVars, fixVars>>

-----------------------------------------------------------------------------
(* Bounds *)

\* longest string (in letters) handed to Triplet.from_string
MaxLen == 5

\* longest text (in letters) after the package name in the first field of
\* a line of the list command's output
MaxFieldLen == 4

\* most output lines of the list command
MaxLines == 2

\* most names in the dependency filter given on the command line
MaxDeps == 2

\* most applications of a fix-up to one directory
MaxApply == 2

-----------------------------------------------------------------------------
(* Strings *)

dynamic == <<"dynamic">>
static  == <<"static">>
dash    == <<"-">>

\* all strings of at most n letters over alphabet A
StringsUpTo(A, n) == UNION {[1..k -> A] : k \in 0..n}

\* str.split(sep): the pieces between the occurrences of the letter sep;
\* always at least one piece (''.split('-') is [''])
RECURSIVE split(_, _)
split(s, sep) ==
    IF \A i \in 1..Len(s) : s[i] # sep
    THEN <<s>>
    ELSE LET i == CHOOSE k \in 1..Len(s) :
                      s[k] = sep /\ \A j \in 1..(k-1) : s[j] # sep
         IN  <<SubSeq(s, 1, i-1)>> \o split(SubSeq(s, i+1, Len(s)), sep)

-----------------------------------------------------------------------------
(* class Triplet *)

NoObject == [cls |-> "NoneType", arch |-> <<>>, system |-> <<>>, linkage |-> <<>>]

\* Triplet.__init__
Triplet(arch, system, linkage) ==
    [cls |-> "Triplet", arch |-> arch, system |-> system, linkage |-> linkage]

\* an instance of another class, for the type test of __eq__
OtherObject == [cls |-> "str", arch |-> <<>>, system |-> <<>>, linkage |-> <<>>]

\* from_string that pads a short list instead of failing (mutation)
from_string_pad(s) ==
    LET l0 == split(s, "-")
        l1 == IF Len(l0) = 1 THEN Append(l0, <<>>) ELSE l0
        triplet_list == IF Len(l1) = 2 THEN Append(l1, dynamic) ELSE l1
    IN  [exc |-> "none",
         val |-> Triplet(triplet_list[1], triplet_list[2], triplet_list[3])]

\* Triplet.from_string: the list indexing raises IndexError when the list,
\* after the default was appended, has fewer than three elements
from_string(s) ==
    LET l0 == split(s, "-")
        triplet_list == IF Len(l0) = 2 THEN Append(l0, dynamic) ELSE l0
    IN  IF Len(triplet_list) < 3
        THEN [exc |-> "IndexError", val |-> NoObject]
        ELSE [exc |-> "none",
              val |-> Triplet(triplet_list[1], triplet_list[2], triplet_list[3])]

\* Triplet.__eq__ (the second conjunct compares self.system with other.arch)
Triplet_eq(self, other) ==
    IF self.cls # other.cls
    THEN FALSE
    ELSE /\ self.arch = other.arch
         /\ self.system = other.arch
         /\ self.linkage = other.linkage

\* Triplet.__str__
Triplet_str(self) ==
    IF self.linkage = static
    THEN self.arch \o dash \o self.system \o dash \o self.linkage
    ELSE self.arch \o dash \o self.system

\* Triplet.__hash__: the exclusive-or of the three field hashes.  A string's
\* hash is modelled by the string itself, and the exclusive-or of three of
\* them by the set of those that occur an odd number of times, which is
\* what exclusive-or leaves of them.
Triplet_hash(self) ==
    LET f == <<self.arch, self.system, self.linkage>>
    IN  { v \in {f[1], f[2], f[3]} :
            Cardinality({ i \in 1..3 : f[i] = v }) % 2 = 1 }

-----------------------------------------------------------------------------
(* The parsing of one line of the list command's output *)

\* the string without its leading blanks
RECURSIVE lstrip(_)
lstrip(s) ==
    IF s # <<>> /\ Head(s) = " " THEN lstrip(Tail(s)) ELSE s

\* str.split(maxsplit=n): the blank-separated words, at most n of them
\* split off, the rest (leading blanks dropped) being the last piece
RECURSIVE split_ws(_, _)
split_ws(s, maxsplit) ==
    LET s1 == lstrip(s)
    IN  IF s1 = <<>> THEN <<>>
        ELSE IF maxsplit = 0 THEN <<s1>>
        ELSE IF \A i \in 1..Len(s1) : s1[i] # " " THEN <<s1>>
        ELSE LET i == CHOOSE k \in 1..Len(s1) :
                          s1[k] = " " /\ \A j \in 1..(k-1) : s1[j] # " "
             IN  <<SubSeq(s1, 1, i-1)>>
                    \o split_ws(SubSeq(s1, i+1, Len(s1)), maxsplit - 1)

NoItem == <<NoObject, <<>>>>

\* the body of the try statement of list_installed, up to the item it adds:
\* unpacking a list of the wrong length raises ValueError
try_body(l) ==
    LET fields == split_ws(l, 2)
    IN  IF Len(fields) # 3
        THEN [exc |-> "ValueError", name |-> <<>>, item |-> NoItem]
        ELSE LET name_triplet == split(fields[1], ":")
             IN  IF Len(name_triplet) # 2
                 THEN [exc |-> "ValueError", name |-> <<>>, item |-> NoItem]
                 ELSE LET r == from_string(name_triplet[2])
                      IN  IF r.exc # "none"
                          THEN [exc |-> r.exc, name |-> <<>>, item |-> NoItem]
                          ELSE [exc |-> "none", name |-> name_triplet[1],
                                item |-> <<r.val, fields[2]>>]

\* set.add of a (triplet, version) tuple: the item is dropped when the set
\* holds one with the same hash that compares equal to it (tuples compare
\* item by item, the triplets by Triplet.__eq__: a parsed triplet is a new
\* object, never identical to a stored one).  The set is kept as the
\* sequence of its items.
set_add(S, item) ==
    IF \E i \in 1..Len(S) :
          /\ Triplet_hash(S[i][1]) = Triplet_hash(item[1])
          /\ Triplet_eq(S[i][1], item[1])
          /\ S[i][2] = item[2]
    THEN S
    ELSE Append(S, item)

\* the dict as a sequence of [name, items] entries
Names(d) == { d[i].name : i \in 1..Len(d) }
Items(d, name) ==
    IF name \in Names(d)
    THEN (CHOOSE e \in { d[i] : i \in 1..Len(d) } : e.name = name).items
    ELSE <<>>

\* name_variations.setdefault(name, set()).add(item)
setdefault_add(d, name, item) ==
    IF name \in Names(d)
    THEN [ i \in 1..Len(d) |->
             IF d[i].name = name
             THEN [name |-> name, items |-> set_add(d[i].items, item)]
             ELSE d[i] ]
    ELSE Append(d, [name |-> name, items |-> <<item>>])

\* list_installed's loop over the lines of an output: the exception that
\* leaves it ("none": it returns) and the dict it has built
RECURSIVE parse_lines(_, _)
parse_lines(lines, d) ==
    IF lines = <<>> THEN [exc |-> "none", dict |-> d]
    ELSE LET r == try_body(Head(lines))
         IN  IF r.exc = "none"
             THEN parse_lines(Tail(lines), setdefault_add(d, r.name, r.item))
             ELSE IF r.exc = "ValueError"
             THEN parse_lines(Tail(lines), d)
             ELSE [exc |-> r.exc, dict |-> d]

-----------------------------------------------------------------------------
(* deps.py *)

S(letter) == <<letter>>

DEPENDENCIES ==
    <<S("bullet3"), S("glm"), S("ffmpeg"), S("openal-soft"), S("sdl2")>>

\* a directory tree is a function from the paths below it to the contents
\* of the files; NoFile where there is no file
NoFile == <<>>

lib_deb_path == <<"debug", "/", "lib", "/">>

bullet3_lib_names ==
    <<"BulletCollision", "BulletDynamics", "BulletSoftBody", "LinearMath">>
SDL2_lib_names == <<"SDL2", "SDL2main">>

\* shutil.move that leaves the source in place (mutation)
shutil_copy(tree, src, dst) ==
    IF tree[src] = NoFile
    THEN [exc |-> "FileNotFoundError", tree |-> tree]
    ELSE [exc |-> "none", tree |-> [tree EXCEPT ![dst] = tree[src]]]

\* shutil.move(src, dst) of a file onto a file path
shutil_move(tree, src, dst) ==
    IF tree[src] = NoFile
    THEN [exc |-> "FileNotFoundError", tree |-> tree]
    ELSE [exc |-> "none",
          tree |-> [tree EXCEPT ![dst] = tree[src], ![src] = NoFile]]

\* the loop of a fix-up over its lib_names: each move in a try statement
\* that passes on FileNotFoundError
RECURSIVE fix_loop(_, _, _)
fix_loop(tree, lib_names, suffix) ==
    IF lib_names = <<>> THEN [exc |-> "none", tree |-> tree]
    ELSE LET orig_lib == lib_deb_path \o <<Head(lib_names), suffix>>
             targ_lib == lib_deb_path \o <<Head(lib_names), ".lib">>
             r == shutil_move(tree, orig_lib, targ_lib)
         IN  IF r.exc \in {"none", "FileNotFoundError"}
             THEN fix_loop(r.tree, Tail(lib_names), suffix)
             ELSE r

fix_bullet3(tree) == fix_loop(tree, bullet3_lib_names, "_Debug.lib")
fix_SDL2(tree) == fix_loop(tree, SDL2_lib_names, "d.lib")

\* COPY_FIXES[dep](path); KeyError when dep has no entry
COPY_FIXES(dep, tree) ==
    CASE dep = S("bullet3") -> fix_bullet3(tree)
      [] dep = S("sdl2") -> fix_SDL2(tree)
      [] OTHER -> [exc |-> "KeyError", tree |-> tree]

\* the library files a fix-up is about: the ones with the debug suffix and
\* the ones without
LibPaths(lib_names, suffix) ==
    { lib_deb_path \o <<lib_names[i], sfx>> :
        i \in 1..Len(lib_names), sfx \in {suffix, ".lib"} }

-----------------------------------------------------------------------------
(* class VcPkg: the command lines it runs *)

Range(f) == { f[i] : i \in DOMAIN f }

vcpkg_path == S("vcpkg")
exe_path == vcpkg_path \o <<"/", "vcpkg.exe">>
bootstrap_script == vcpkg_path \o <<"/", "bootstrap-vcpkg.bat">>

clone_cmd ==
    <<S("git"), S("clone"), S("--depth"), S("1"), S("--"),
      S("https://github.com/Microsoft/vcpkg"), vcpkg_path>>
bootstrap_cmd == <<bootstrap_script>>

\* the list cmds of update_vcpkg
update_cmds ==
    << <<S("git"), S("fetch"), S("origin")>>,
       <<S("git"), S("reset"), S("--hard"), S("HEAD")>>,
       <<S("git"), S("checkout"), S("master")>>,
       <<S("git"), S("merge"), S("origin/master")>>,
       bootstrap_cmd >>

list_cmd == <<exe_path, S("list")>>
install_cmd(lib, triplet) ==
    <<exe_path, S("install"), lib, S("--triplet"), Triplet_str(triplet)>>
remove_cmd(lib, triplet) ==
    <<exe_path, S("remove"), lib, S("--triplet"), Triplet_str(triplet)>>

\* build_vcpkg testing for the directory, and for the executable
dir_missing == ~vcdir

\* the bootstrap script run whether or not the executable exists (mutation)
exe_missing_always == TRUE

exe_missing == ~vcexe

\* subprocess.run never checking the exit status (mutation)
raises_never(returncode) == FALSE

\* subprocess.run(..., check=True) raises when the command exits non-zero
\* (CalledProcessError) or cannot be started (FileNotFoundError, modelled
\* as the exit status -1)
raises(returncode) == returncode # 0

raised_exc(returncode) ==
    IF returncode = -1 THEN "FileNotFoundError" ELSE "CalledProcessError"

\* the exit statuses a command may end with: the executable of the package
\* manager cannot be started while it does not exist
ReturnCodes(cmd) ==
    IF cmd[1] = exe_path /\ ~vcexe THEN {-1} ELSE {0, 1}

-----------------------------------------------------------------------------
(* class CommaSplitter and the argument parser of main *)

arch_choices == <<S("arm"), S("x64"), S("x86")>>
system_choices == <<S("windows"), S("uwp")>>
linkage_choices == <<S("dynamic"), S("static")>>
default_arch == <<S("x86"), S("x64")>>
default_system == <<S("windows")>>
default_linkage == <<S("dynamic"), S("static")>>
vcpkg_actions == {"install", "update", "list_installed"}
deps_actions == {"build", "rmbuild", "copy", "rmcopy"}

\* CommaSplitter.__call__: the value is split and checked only when the
\* action was given choices; err stands for the call of parser.error
CommaSplitter_call(choices, values) ==
    IF choices # <<>>
    THEN LET vs == split(values, ",")
         IN  IF \E i \in 1..Len(vs) : vs[i] \notin Range(choices)
             THEN [err |-> TRUE, values |-> vs]
             ELSE [err |-> FALSE, values |-> vs]
    ELSE [err |-> FALSE, values |-> values]

\* an option of the command line: absent, or given with a value
Absent == [given |-> FALSE, value |-> <<>>]
Given(v) == [given |-> TRUE, value |-> v]

\* the value parse_args stores for an option: its default when absent, what
\* its action stores when given
Parsed(opt, default, choices, nargs1) ==
    IF ~opt.given
    THEN [err |-> FALSE, values |-> default]
    ELSE CommaSplitter_call(choices, IF nargs1 THEN <<opt.value>> ELSE opt.value)

\* the triple loop of main building the list of triplets
RECURSIVE product(_, _, _, _)
product(archs, systems, linkages, n) ==
    \* the first n triplets of the enumeration, arch outermost
    IF n = 0 THEN <<>>
    ELSE LET k == n - 1
             nl == Len(linkages)
             ns == Len(systems)
             a == archs[(k \div (nl * ns)) + 1]
             sy == systems[((k \div nl) % ns) + 1]
             l == linkages[(k % nl) + 1]
         IN  Append(product(archs, systems, linkages, k), Triplet(a, sy, l))

build_triplets(o) ==
    product(o.arch, o.system, o.linkage,
            Len(o.arch) * Len(o.system) * Len(o.linkage))

-----------------------------------------------------------------------------
(* Harness for the Triplet methods: a string is parsed and printed back, *)
(* or two objects are constructed and compared.                           *)

TripletAlphabet == {"x64", "windows", "dynamic", "static", "release", "-"}
FieldValues == {<<"x64">>, <<"windows">>, dynamic, static, <<"release">>}

NoResult == [op |-> "none", exc |-> "none", val |-> <<>>]

TripIdle ==
    /\ tpc = "idle" /\ triplet_string = <<>>
    /\ t1 = NoObject /\ t2 = NoObject /\ result = NoResult

ListIdle ==
    /\ lpc = "idle" /\ nlines = 0 /\ line = <<>>
    /\ name_variations = <<>> /\ lexc = "none"

InitTriplet ==
    /\ t1 = NoObject /\ t2 = NoObject /\ result = NoResult
    /\ \/ tpc = "parse" /\ triplet_string \in StringsUpTo(TripletAlphabet, MaxLen)
       \/ tpc = "construct" /\ triplet_string = <<>>

CallFromString ==
    /\ UNCHANGED notTripVars
    /\ tpc = "parse" /\ result.op = "none"
    /\ LET r == from_string(triplet_string)
       IN  /\ result' = [op |-> "from_string", exc |-> r.exc, val |-> <<>>]
           /\ t1' = r.val
    /\ UNCHANGED <<tpc, triplet_string, t2>>

CallInit ==
    /\ UNCHANGED notTripVars
    /\ tpc = "construct" /\ result.op = "none"
    /\ \E a \in FieldValues, s \in FieldValues, l \in FieldValues :
          \/ t1 = NoObject /\ t1' = Triplet(a, s, l) /\ t2' = t2
          \/ t1 # NoObject /\ t2 = NoObject /\ t2' = Triplet(a, s, l) /\ t1' = t1
    /\ UNCHANGED <<tpc, triplet_string, result>>

CallOther ==
    /\ UNCHANGED notTripVars
    /\ tpc = "construct" /\ result.op = "none"
    /\ t1 # NoObject /\ t2 = NoObject
    /\ t2' = OtherObject
    /\ UNCHANGED <<tpc, triplet_string, t1, result>>

CallEq ==
    /\ UNCHANGED notTripVars
    /\ tpc = "construct" /\ result.op = "none"
    /\ t1 # NoObject /\ t2 # NoObject
    /\ result' = [op |-> "__eq__", exc |-> "none", val |-> <<Triplet_eq(t1, t2)>>]
    /\ UNCHANGED <<tpc, triplet_string, t1, t2>>

CallStr ==
    /\ UNCHANGED notTripVars
    /\ t1 # NoObject
    /\ \/ tpc = "parse" /\ result.op = "from_string"
       \/ tpc = "construct" /\ result.op = "none"
    /\ result' = [op |-> "__str__", exc |-> "none", val |-> Triplet_str(t1)]
    /\ UNCHANGED <<tpc, triplet_string, t1, t2>>

NextTriplet == CallFromString \/ CallInit \/ CallOther \/ CallEq \/ CallStr


NoOptions ==
    [what |-> <<>>, arch |-> <<>>, system |-> <<>>, linkage |-> <<>>,
     sub |-> "none", action |-> ""]
NoSnap == [dir |-> FALSE, exe |-> FALSE]

RunStart ==
    /\ options = NoOptions /\ triplets = <<>>
    /\ mpc = "start" /\ status = "running" /\ exc = "none"
    /\ log = <<>> /\ ti = 1 /\ di = 1 /\ snap = NoSnap

NoArgv ==
    [w |-> Absent, a |-> Absent, s |-> Absent, l |-> Absent,
     sub |-> "none", action |-> ""]

MainIdle ==
    /\ argv = NoArgv
    /\ RunStart /\ vcdir = FALSE /\ vcexe = FALSE /\ prev = FALSE

CopyIdle == outfs = <<>>

FixIdle ==
    /\ fix_dep = <<>> /\ orig_files = <<>> /\ before_files = <<>>
    /\ files = <<>> /\ napplied = 0 /\ fexc = "none"

-----------------------------------------------------------------------------
(* VcPkg.list_installed on the output of the list command, one line of the *)
(* output per step of its loop.                                             *)

FieldAlphabet == {":", "x64", "-"}

\* the first field of a line: a package name, or none, and any text after it
FirstFields ==
    { n \o t : n \in {<<>>, <<"zlib">>},
               t \in StringsUpTo(FieldAlphabet, MaxFieldLen) }

\* what may follow the first field of a line: nothing, a version, a version
\* and a description (of one or two words)
LineRests ==
    { <<>>,
      <<" ", "1.2">>,
      <<" ", "1.2", " ", "lib">>,
      <<" ", "1.2", " ", "lib", " ", "lib">> }

Lines == { f \o r : f \in FirstFields, r \in LineRests }

InitList ==
    /\ lpc = "run" /\ nlines = 0 /\ line = <<>>
    /\ name_variations = <<>> /\ lexc = "none"

\* subprocess.run([exe, 'list'], check=True): a non-zero exit raises
RunList ==
    /\ UNCHANGED notListVars
    /\ lpc = "run"
    /\ \E returncode \in {0, 1} :
          IF returncode = 0
          THEN lpc' = "loop" /\ lexc' = lexc
          ELSE lpc' = "raised" /\ lexc' = "CalledProcessError"
    /\ UNCHANGED <<nlines, line, name_variations>>

\* one iteration of `for line in output.split('\r\n')`
ReadLine ==
    /\ UNCHANGED notListVars
    /\ lpc = "loop" /\ nlines < MaxLines
    /\ \E l \in Lines :
          LET r == try_body(l)
          IN  /\ line' = l
              /\ nlines' = nlines + 1
              /\ IF r.exc = "none"
                 THEN /\ name_variations' = setdefault_add(name_variations, r.name, r.item)
                      /\ lpc' = lpc /\ lexc' = lexc
                 ELSE IF r.exc = "ValueError"          \* except ValueError: pass
                 THEN UNCHANGED <<name_variations, lpc, lexc>>
                 ELSE /\ lpc' = "raised" /\ lexc' = r.exc
                      /\ name_variations' = name_variations

\* the output is exhausted (split yields at least one piece): return
ReturnList ==
    /\ UNCHANGED notListVars
    /\ lpc = "loop" /\ nlines >= 1
    /\ lpc' = "returned"
    /\ UNCHANGED <<nlines, line, name_variations, lexc>>

NextList == RunList \/ ReadLine \/ ReturnList


-----------------------------------------------------------------------------
(* main(): the runs that start external commands (the administration of    *)
(* the package manager, build and rmbuild).  A run that has ended may be   *)
(* followed by another one, which finds the directories as the run before  *)
(* left them.                                                              *)

RECURSIVE Join(_, _)
Join(names, sep) ==
    IF names = <<>> THEN <<>>
    ELSE IF Len(names) = 1 THEN names[1]
    ELSE names[1] \o <<sep>> \o Join(Tail(names), sep)

DepNames == {S("glm"), S("bullet3")}
WhatArgs ==
    {Absent} \cup
    { Given(Join(ns, ",")) : ns \in UNION {[1..k -> DepNames] : k \in 1..MaxDeps} }
ArchArgs ==
    {Absent, Given(<<"x64">>), Given(<<"x64", ",", "x86">>), Given(<<"x64", ",", "ppc">>)}
SystemArgs == {Absent, Given(<<"uwp">>)}
LinkageArgs == {Absent, Given(<<"static">>), Given(<<"static", ",", "dynamic">>)}
ProcessCommands ==
    { <<"vcpkg", "install">>, <<"vcpkg", "update">>, <<"vcpkg", "list_installed">>,
      <<"vcpkg", "upgrade">>, <<"deps", "build">>, <<"deps", "rmbuild">>,
      <<"none", "">> }

Argvs(commands) ==
    { [w |-> w, a |-> a, s |-> s, l |-> l, sub |-> c[1], action |-> c[2]] :
        w \in WhatArgs, a \in ArchArgs, s \in SystemArgs, l \in LinkageArgs,
        c \in commands }

\* outputs of the list command: one or two lines
SampleLines ==
    { <<"zlib", ":", "x64", "-", "windows", " ", "1.2", " ", "lib">>,
      <<"zlib", ":", "x64", " ", "1.2", " ", "lib">>,
      <<>> }
SampleOutputs == UNION {[1..k -> SampleLines] : k \in 1..2}

InitMain ==
    /\ argv = NoArgv
    /\ RunStart
    /\ \E fs \in {<<FALSE, FALSE>>, <<TRUE, FALSE>>, <<TRUE, TRUE>>} :
          vcdir = fs[1] /\ vcexe = fs[2]
    /\ prev = FALSE

\* the program is started with a command line
Start ==
    /\ UNCHANGED notMainVars
    /\ mpc = "start"
    /\ argv' \in Argvs(ProcessCommands)
    /\ mpc' = "parse_args"
    /\ UNCHANGED <<options, triplets, status, exc, vcdir, vcexe, log, ti, di,
                   snap, prev>>

\* parse_args, the default of options.what and the list of triplets
ParseArgs ==
    /\ UNCHANGED notMainVars
    /\ mpc = "parse_args" /\ status = "running"
    /\ LET w == Parsed(argv.w, <<>>, <<>>, TRUE)
           a == Parsed(argv.a, default_arch, arch_choices, FALSE)
           s == Parsed(argv.s, default_system, system_choices, FALSE)
           l == Parsed(argv.l, default_linkage, linkage_choices, FALSE)
           bad == \/ a.err \/ s.err \/ l.err
                  \/ argv.sub = "vcpkg" /\ argv.action \notin vcpkg_actions
                  \/ argv.sub = "deps" /\ argv.action \notin deps_actions
           o == [what |-> IF w.values = <<>> THEN DEPENDENCIES ELSE w.values,
                 arch |-> a.values, system |-> s.values, linkage |-> l.values,
                 sub |-> argv.sub, action |-> argv.action]
       IN  IF bad
           THEN /\ status' = "usage" /\ mpc' = "exit"
                /\ UNCHANGED <<options, triplets>>
           ELSE /\ options' = o
                /\ triplets' = build_triplets(o)
                /\ mpc' = "dispatch"
                /\ status' = status
    /\ UNCHANGED <<argv, exc, vcdir, vcexe, log, ti, di, snap, prev>>

\* the if/elif chain of main on the action
Dispatch ==
    /\ UNCHANGED notMainVars
    /\ mpc = "dispatch" /\ status = "running"
    /\ IF options.sub = "none"
       THEN mpc' = "exit" /\ status' = "usage"
       ELSE /\ status' = status
            /\ mpc' = CASE options.action \in {"install", "update"} -> "build_vcpkg_clone"
                         [] OTHER -> options.action
    /\ snap' = [dir |-> vcdir, exe |-> vcexe]
    /\ UNCHANGED <<argv, options, triplets, exc, vcdir, vcexe, log, ti, di, prev>>

\* subprocess.run(cmd, check=True) ending with returncode: the log, and the
\* exception if it raises
Ran(cmd, returncode) ==
    /\ log' = Append(log, [cmd |-> cmd, returncode |-> returncode])
    /\ IF raises(returncode)
       THEN status' = "raised" /\ exc' = raised_exc(returncode)
       ELSE status' = status /\ exc' = exc

\* build_vcpkg, its first if statement
BuildVcpkgClone ==
    /\ UNCHANGED notMainVars
    /\ mpc = "build_vcpkg_clone" /\ status = "running"
    /\ IF dir_missing
       THEN \E returncode \in ReturnCodes(clone_cmd) :
               /\ Ran(clone_cmd, returncode)
               /\ vcdir' = (returncode = 0)
               /\ mpc' = IF raises(returncode) THEN mpc ELSE "build_vcpkg_bootstrap"
       ELSE /\ mpc' = "build_vcpkg_bootstrap"
            /\ UNCHANGED <<log, status, exc, vcdir>>
    /\ UNCHANGED <<argv, options, triplets, vcexe, ti, di, snap, prev>>

\* build_vcpkg, its second if statement, and the return to main or to
\* update_vcpkg; a bootstrap script that succeeds may or may not have
\* produced the executable
BuildVcpkgBootstrap ==
    /\ UNCHANGED notMainVars
    /\ mpc = "build_vcpkg_bootstrap" /\ status = "running"
    /\ LET after == IF options.action = "install" THEN "exit" ELSE "update"
       IN  IF exe_missing
           THEN \E returncode \in ReturnCodes(bootstrap_cmd), built \in BOOLEAN :
                   /\ Ran(bootstrap_cmd, returncode)
                   /\ vcexe' = (vcexe \/ (returncode = 0 /\ built))
                   /\ mpc' = IF raises(returncode) THEN mpc ELSE after
           ELSE /\ mpc' = after
                /\ UNCHANGED <<log, status, exc, vcexe>>
    /\ UNCHANGED <<argv, options, triplets, vcdir, ti, di, snap, prev>>

\* update_vcpkg, one iteration of its loop over cmds
UpdateCmd ==
    /\ UNCHANGED notMainVars
    /\ mpc = "update" /\ status = "running"
    /\ LET cmd == update_cmds[di]
       IN  \E returncode \in ReturnCodes(cmd), built \in BOOLEAN :
              /\ Ran(cmd, returncode)
              /\ vcexe' = IF cmd = bootstrap_cmd /\ returncode = 0 /\ built
                          THEN TRUE ELSE vcexe
              /\ IF raises(returncode) THEN mpc' = mpc /\ di' = di
                 ELSE IF di < Len(update_cmds) THEN mpc' = mpc /\ di' = di + 1
                 ELSE mpc' = "exit" /\ di' = di
    /\ UNCHANGED <<argv, options, triplets, vcdir, ti, snap, prev>>

\* list_installed and the printing of its keys
ListInstalled ==
    /\ UNCHANGED notMainVars
    /\ mpc = "list_installed" /\ status = "running"
    /\ \E returncode \in ReturnCodes(list_cmd) :
          /\ log' = Append(log, [cmd |-> list_cmd, returncode |-> returncode])
          /\ IF raises(returncode)
             THEN status' = "raised" /\ exc' = raised_exc(returncode) /\ mpc' = mpc
             ELSE \E output \in SampleOutputs :
                     LET r == parse_lines(output, <<>>)
                     IN  IF r.exc # "none"
                         THEN status' = "raised" /\ exc' = r.exc /\ mpc' = mpc
                         ELSE status' = status /\ exc' = exc /\ mpc' = "exit"
    /\ UNCHANGED <<argv, options, triplets, vcdir, vcexe, ti, di, snap, prev>>

\* the step of the two nested loops of build and rmbuild after one call
LoopStep ==
    IF di < Len(options.what) THEN mpc' = mpc /\ ti' = ti /\ di' = di + 1
    ELSE IF ti < Len(triplets) THEN mpc' = mpc /\ ti' = ti + 1 /\ di' = 1
    ELSE mpc' = "exit" /\ ti' = ti /\ di' = di

\* build: install_library for the current triplet and dependency
InstallLibrary ==
    /\ UNCHANGED notMainVars
    /\ mpc = "build" /\ status = "running"
    /\ LET cmd == install_cmd(options.what[di], triplets[ti])
       IN  \E returncode \in ReturnCodes(cmd) :
              /\ Ran(cmd, returncode)
              /\ IF raises(returncode)
                 THEN UNCHANGED <<mpc, ti, di>>
                 ELSE LoopStep
    /\ UNCHANGED <<argv, options, triplets, vcdir, vcexe, snap, prev>>

\* rmbuild: remove_library for the current triplet and dependency
RemoveLibrary ==
    /\ UNCHANGED notMainVars
    /\ mpc = "rmbuild" /\ status = "running"
    /\ LET cmd == remove_cmd(options.what[di], triplets[ti])
       IN  \E returncode \in ReturnCodes(cmd) :
              /\ Ran(cmd, returncode)
              /\ IF raises(returncode)
                 THEN UNCHANGED <<mpc, ti, di>>
                 ELSE LoopStep
    /\ UNCHANGED <<argv, options, triplets, vcdir, vcexe, snap, prev>>

\* main returns
Exit ==
    /\ UNCHANGED notMainVars
    /\ mpc = "exit" /\ status = "running"
    /\ status' = "done"
    /\ UNCHANGED <<argv, options, triplets, mpc, exc, vcdir, vcexe, log,
                   ti, di, snap, prev>>

\* build_vcpkg has returned in this run
BuildVcpkgReturned ==
    /\ options.action \in {"install", "update"}
    /\ mpc \in {"update", "exit"}

\* the run is over; the directories stay as it left them
Finish ==
    /\ UNCHANGED notMainVars
    /\ status # "running"
    /\ argv' = NoArgv
    /\ prev' = (BuildVcpkgReturned /\ ~snap.dir /\ ~snap.exe /\ vcexe)
    /\ options' = NoOptions /\ triplets' = <<>>
    /\ mpc' = "start" /\ status' = "running" /\ exc' = "none"
    /\ log' = <<>> /\ ti' = 1 /\ di' = 1 /\ snap' = NoSnap
    /\ UNCHANGED <<vcdir, vcexe>>

NextMain ==
    \/ Start \/ ParseArgs \/ Dispatch \/ BuildVcpkgClone \/ BuildVcpkgBootstrap
    \/ UpdateCmd \/ ListInstalled \/ InstallLibrary \/ RemoveLibrary
    \/ Exit \/ Finish


-----------------------------------------------------------------------------
(* main(): copy and rmcopy, the runs that work on the output directory.   *)
(* The package a copy reads is found as the package manager staged it: it *)
(* may be missing, and it may lack either manifest file.                  *)

FileCommands == { <<"deps", "copy">>, <<"deps", "rmcopy">> }

CONTROL == <<"CONTROL">>
BUILD_INFO == <<"BUILD_INFO">>

CopyPaths ==
    {CONTROL, BUILD_INFO}
        \cup LibPaths(bullet3_lib_names, "_Debug.lib")
        \cup LibPaths(SDL2_lib_names, "d.lib")

EmptyTree == [p \in CopyPaths |-> NoFile]
NoDir == [exists |-> FALSE, tree |-> EmptyTree]

\* the names of the destinations: the string forms of the triplets the
\* command line can ask for
DstNames ==
    { Triplet_str(Triplet(a, sy, l)) :
        a \in Range(arch_choices), sy \in Range(system_choices),
        l \in Range(linkage_choices) }

\* a destination as an earlier copy of the whole registry left it
EarlierDir ==
    [exists |-> TRUE,
     tree |-> [p \in CopyPaths |->
                 IF p \in { lib_deb_path \o <<n, ".lib">> :
                              n \in Range(bullet3_lib_names) \cup Range(SDL2_lib_names) }
                 THEN <<S("earlier")>> ELSE NoFile]]

\* the staged package of dep for triplet: its debug libraries under the
\* names the package manager gives them, and the manifest files it has
PackageLayouts == [control : BOOLEAN, build_info : BOOLEAN]
Package(dep, triplet, layout) ==
    LET content == <<dep, Triplet_str(triplet)>>
        libs == CASE dep = S("bullet3") ->
                       { lib_deb_path \o <<n, "_Debug.lib">> : n \in Range(bullet3_lib_names) }
                  [] dep = S("sdl2") ->
                       { lib_deb_path \o <<n, "d.lib">> : n \in Range(SDL2_lib_names) }
                  [] OTHER -> {}
    IN  [p \in CopyPaths |->
            IF \/ p \in libs
               \/ p = CONTROL /\ layout.control
               \/ p = BUILD_INFO /\ layout.build_info
            THEN content ELSE NoFile]

\* distutils.dir_util.copy_tree(src, dst): every file of src lands in dst
copy_tree(src, dst) ==
    [p \in CopyPaths |-> IF src[p] # NoFile THEN src[p] ELSE dst[p]]

\* Path.unlink()
unlink(tree, p) ==
    IF tree[p] = NoFile
    THEN [exc |-> "FileNotFoundError", tree |-> tree]
    ELSE [exc |-> "none", tree |-> [tree EXCEPT ![p] = NoFile]]

dst_name == Triplet_str(triplets[ti])

InitCopy ==
    /\ argv = NoArgv /\ RunStart
    /\ vcdir = TRUE /\ vcexe = TRUE /\ prev = FALSE
    /\ outfs \in { [d \in DstNames |-> NoDir], [d \in DstNames |-> EarlierDir] }

\* the program is started with a command line asking for copy or rmcopy
StartCopy ==
    /\ UNCHANGED notMainVars
    /\ mpc = "start"
    /\ argv' \in Argvs(FileCommands)
    /\ mpc' = "parse_args"
    /\ UNCHANGED <<options, triplets, status, exc, vcdir, vcexe, log, ti, di,
                   snap, prev>>

\* copy: dst.mkdir(exist_ok=True) for the current triplet
CopyMkdir ==
    /\ UNCHANGED notCopyVars
    /\ mpc = "copy" /\ status = "running"
    /\ outfs' = [outfs EXCEPT ![dst_name].exists = TRUE]
    /\ mpc' = "copy_dep" /\ di' = 1
    /\ UNCHANGED <<argv, options, triplets, status, exc, vcdir, vcexe, log, ti,
                   snap, prev>>

\* copy: copy_tree of the package of the current dependency and its fix-up
CopyDep ==
    /\ UNCHANGED notCopyVars
    /\ mpc = "copy_dep" /\ status = "running"
    /\ LET dep == options.what[di]
           next == IF di < Len(options.what) THEN mpc ELSE "copy_unlink"
       IN  \/ \* the package directory is missing: copy_tree raises
              /\ status' = "raised" /\ exc' = "DistutilsFileError"
              /\ UNCHANGED <<outfs, mpc, di>>
           \/ \E layout \in PackageLayouts :
                 LET copied == copy_tree(Package(dep, triplets[ti], layout),
                                         outfs[dst_name].tree)
                     \* try: COPY_FIXES[dep](dst) except KeyError: pass
                     fixed == COPY_FIXES(dep, copied)
                 IN  /\ outfs' = [outfs EXCEPT ![dst_name].tree = fixed.tree]
                     /\ IF fixed.exc \in {"none", "KeyError"}
                        THEN /\ mpc' = next /\ di' = IF next = mpc THEN di + 1 ELSE di
                             /\ UNCHANGED <<status, exc>>
                        ELSE /\ status' = "raised" /\ exc' = fixed.exc
                             /\ UNCHANGED <<mpc, di>>
    /\ UNCHANGED <<argv, options, triplets, vcdir, vcexe, log, ti, snap, prev>>

\* copy: the two unlink calls for the current triplet, and the step to the
\* next triplet
CopyUnlink ==
    /\ UNCHANGED notCopyVars
    /\ mpc = "copy_unlink" /\ status = "running"
    /\ LET r1 == unlink(outfs[dst_name].tree, CONTROL)
           r2 == IF r1.exc = "none" THEN unlink(r1.tree, BUILD_INFO) ELSE r1
       IN  /\ outfs' = [outfs EXCEPT ![dst_name].tree = r2.tree]
           /\ IF r2.exc # "none"
              THEN /\ status' = "raised" /\ exc' = r2.exc
                   /\ UNCHANGED <<mpc, ti>>
              ELSE /\ UNCHANGED <<status, exc>>
                   /\ IF ti < Len(triplets)
                      THEN mpc' = "copy" /\ ti' = ti + 1
                      ELSE mpc' = "exit" /\ ti' = ti
    /\ UNCHANGED <<argv, options, triplets, vcdir, vcexe, log, di, snap, prev>>

\* rmcopy: shutil.rmtree(dst, ignore_errors=True) for the current triplet
Rmcopy ==
    /\ UNCHANGED notCopyVars
    /\ mpc = "rmcopy" /\ status = "running"
    /\ outfs' = [outfs EXCEPT ![dst_name] = NoDir]
    /\ IF ti < Len(triplets)
       THEN mpc' = mpc /\ ti' = ti + 1
       ELSE mpc' = "exit" /\ ti' = ti
    /\ UNCHANGED <<argv, options, triplets, status, exc, vcdir, vcexe, log, di,
                   snap, prev>>

NextCopy ==
    \/ StartCopy \/ ParseArgs \/ Dispatch \/ CopyMkdir \/ CopyDep
    \/ CopyUnlink \/ Rmcopy \/ Exit

-----------------------------------------------------------------------------
(* The fix-ups applied to a debug/lib directory, once and again *)

FixedDeps == {S("bullet3"), S("sdl2")}

FixLibNames(dep) == IF dep = S("bullet3") THEN bullet3_lib_names ELSE SDL2_lib_names
FixSuffix(dep) == IF dep = S("bullet3") THEN "_Debug.lib" ELSE "d.lib"

\* a file no fix-up is about
other_lib == lib_deb_path \o <<"zlib", ".lib">>

FileContents == {NoFile, <<S("old")>>, <<S("new")>>}

InitFix ==
    /\ fix_dep \in FixedDeps
    /\ files \in [LibPaths(FixLibNames(fix_dep), FixSuffix(fix_dep)) \cup {other_lib}
                     -> FileContents]
    /\ orig_files = files /\ before_files = files
    /\ napplied = 0 /\ fexc = "none"

ApplyFix ==
    /\ UNCHANGED notFixVars
    /\ napplied < MaxApply
    /\ LET r == COPY_FIXES(fix_dep, files)
       IN  /\ files' = r.tree
           /\ fexc' = r.exc
    /\ before_files' = files
    /\ napplied' = napplied + 1
    /\ UNCHANGED <<fix_dep, orig_files>>

NextFix == ApplyFix

-----------------------------------------------------------------------------
(* Properties of Triplet, under SpecTriplet *)

\* the number of dash-separated components of a string
NumComponents(s) == 1 + Cardinality({ i \in 1..Len(s) : s[i] = "-" })

SameFields(a, b) ==
    a.arch = b.arch /\ a.system = b.system /\ a.linkage = b.linkage

\* C1: two triplets compare equal if and only if their arch, their system
\* and their linkage are pairwise the same; so a triplet equals itself and
\* any triplet constructed from the same three fields.
C1_EqualIffFieldsMatch ==
    (result.op = "__eq__" /\ t1.cls = "Triplet" /\ t2.cls = "Triplet")
        => (result.val[1] <=> SameFields(t1, t2))

\* C2: the string form of a triplet is arch-system when its linkage is
\* "dynamic" and arch-system-linkage for every other linkage.
C2_StringForm ==
    (tpc = "construct" /\ result.op = "__str__")
        => result.val = IF t1.linkage = dynamic
                        THEN t1.arch \o dash \o t1.system
                        ELSE t1.arch \o dash \o t1.system \o dash \o t1.linkage

\* C3: from_string fails (the list index is out of range, IndexError) and
\* constructs no triplet when the string has fewer than 2 dash-separated
\* components; with exactly 2 components it yields them as arch and system
\* with linkage "dynamic"; with 3 components it yields the third as linkage.
C3_FromString ==
    result.op = "from_string"
        => LET n == NumComponents(triplet_string)
               c == split(triplet_string, "-")
           IN  /\ n < 2 => result.exc = "IndexError" /\ t1 = NoObject
               /\ n = 2 => /\ result.exc = "none"
                           /\ t1 = Triplet(c[1], c[2], dynamic)
               /\ n = 3 => /\ result.exc = "none"
                           /\ t1 = Triplet(c[1], c[2], c[3])

\* a string without a dash is refused
C3_Witness ==
    /\ result.op = "from_string" /\ result.exc = "IndexError"
    /\ triplet_string = <<"x64">>

\* a-s, or a-s-l with l other than "dynamic", no component empty
ValidTripletString(s) ==
    LET c == split(s, "-")
    IN  /\ Len(c) \in {2, 3}
        /\ \A i \in 1..Len(c) : c[i] # <<>>
        /\ Len(c) = 3 => c[3] # dynamic

\* C9: printing the triplet parsed from a valid string a-s, or a-s-l with l
\* other than "dynamic", gives the string back.
C9_RoundTrip ==
    (tpc = "parse" /\ result.op = "__str__" /\ ValidTripletString(triplet_string))
        => result.val = triplet_string

-----------------------------------------------------------------------------
(* Properties of list_installed, under SpecList *)

\* name:triplet version description, the triplet of 2 or more components
WellShaped(l) ==
    LET fields == split_ws(l, 2)
    IN  /\ Len(fields) = 3
        /\ Cardinality({ i \in 1..Len(fields[1]) : fields[1][i] = ":" }) = 1
        /\ NumComponents(split(fields[1], ":")[2]) >= 2

\* C4: whatever lines the list command printed, list_installed raises no
\* error; a line name:triplet version description puts the pair (triplet,
\* version) under its name, every other line leaves the dict as it was.
C4_MalformedLinesSkipped ==
    [][ (lpc = "loop" /\ nlines' = nlines + 1)
          => /\ lpc' # "raised"
             /\ IF WellShaped(line')
                THEN LET fields == split_ws(line', 2)
                         nt == split(fields[1], ":")
                         item == <<from_string(nt[2]).val, fields[2]>>
                     IN  item \in Range(Items(name_variations', nt[1]))
                ELSE name_variations' = name_variations ]_vars

-----------------------------------------------------------------------------
(* Properties of main and of the VcPkg methods, under SpecMain *)

Cmds(l) == [k \in 1..Len(l) |-> l[k].cmd]

IsPrefix(p, q) == Len(p) <= Len(q) /\ p = SubSeq(q, 1, Len(p))

\* the names a dependency filter stands for
FilterNames ==
    IF argv.w.given THEN split(argv.w.value, ",") ELSE DEPENDENCIES

\* one entry per pair, triplets in the outer loop and names in the inner one
Pairs(ts, names) ==
    [k \in 1..(Len(ts) * Len(names)) |->
        [lib |-> names[((k - 1) % Len(names)) + 1],
         triplet |-> ts[((k - 1) \div Len(names)) + 1]]]

\* C5: a build (rmbuild) run that comes to its end has called
\* install_library (remove_library) exactly once for each pair of a triplet
\* and a single name of the filter (of the registry, without a filter),
\* triplets in the outer loop and names in the inner one.
C5_OncePerTripletAndName ==
    (status = "done" /\ options.action \in {"build", "rmbuild"})
        => LET want == Pairs(triplets, FilterNames)
               verb == IF options.action = "build" THEN "install" ELSE "remove"
           IN  /\ Len(log) = Len(want)
               /\ \A k \in 1..Len(log) :
                     /\ k <= Len(want)
                     /\ log[k].cmd = <<exe_path, S(verb), want[k].lib,
                                       S("--triplet"), Triplet_str(want[k].triplet)>>

\* the commands build_vcpkg is to run when called with the directory and
\* the executable as in sn
BootstrapIntended(sn) ==
    (IF ~sn.dir THEN <<clone_cmd>> ELSE <<>>)
        \o (IF ~sn.exe THEN <<bootstrap_cmd>> ELSE <<>>)

\* the commands a run is to start, one after the other
Intended ==
    CASE options.action = "install" -> BootstrapIntended(snap)
      [] options.action = "update" ->
            BootstrapIntended(snap)
               \o << <<S("git"), S("fetch"), S("origin")>>,
                     <<S("git"), S("reset"), S("--hard"), S("HEAD")>>,
                     <<S("git"), S("checkout"), S("master")>>,
                     <<S("git"), S("merge"), S("origin/master")>>,
                     <<bootstrap_script>> >>
      [] options.action = "list_installed" -> <<list_cmd>>
      [] options.action = "build" ->
            [k \in 1..(Len(triplets) * Len(options.what)) |->
                install_cmd(Pairs(triplets, options.what)[k].lib,
                            Pairs(triplets, options.what)[k].triplet)]
      [] options.action = "rmbuild" ->
            [k \in 1..(Len(triplets) * Len(options.what)) |->
                remove_cmd(Pairs(triplets, options.what)[k].lib,
                           Pairs(triplets, options.what)[k].triplet)]
      [] OTHER -> <<>>

Dispatched == mpc \notin {"start", "parse_args", "dispatch"} /\ status # "usage"

\* C6: the commands a run has started are a prefix of the sequence it is
\* to start; only the last of them may have failed, and then the run has
\* ended with an error; a run that came to its end started them all.
C6_AbortAtFirstFailure ==
    /\ ~Dispatched => log = <<>>
    /\ Dispatched =>
          /\ IsPrefix(Cmds(log), Intended)
          /\ \A k \in 1..(Len(log) - 1) : log[k].returncode = 0
          /\ (log # <<>> /\ log[Len(log)].returncode # 0) => status = "raised"
          /\ (status = "raised" /\ exc \in {"CalledProcessError", "FileNotFoundError"})
                => (log # <<>> /\ log[Len(log)].returncode # 0)
          /\ status = "done" => Cmds(log) = Intended

\* an update that cloned and bootstrapped, fetched, and failed to reset
C6_Witness ==
    /\ options.action = "update" /\ status = "raised"
    /\ Len(log) = 4 /\ log[1].cmd = clone_cmd /\ log[4].returncode = 1

\* the second if statement of build_vcpkg has been decided
PastBootstrap ==
    \/ BuildVcpkgReturned
    \/ mpc = "build_vcpkg_bootstrap" /\ status = "raised"

\* the first if statement of build_vcpkg has been decided
PastClone ==
    \/ PastBootstrap
    \/ mpc = "build_vcpkg_bootstrap"
    \/ mpc = "build_vcpkg_clone" /\ status = "raised"

\* the commands of the log that build_vcpkg started: those before the
\* first command of update_vcpkg
RECURSIVE BuildCmds(_)
BuildCmds(l) ==
    IF l = <<>> \/ Head(l).cmd \notin {clone_cmd, bootstrap_cmd} THEN <<>>
    ELSE <<Head(l).cmd>> \o BuildCmds(Tail(l))

\* C7: build_vcpkg runs the clone command exactly when the directory was
\* absent at the call, and the bootstrap script exactly when the executable
\* is absent after the clone step (the clone step leaves the executable as
\* it was at the call); called with both present it runs nothing and
\* changes nothing, as it does when the run before cloned and bootstrapped.
C7_BootstrapIdempotent ==
    (Dispatched /\ options.action \in {"install", "update"}) =>
        LET ran == Range(BuildCmds(log))
        IN  /\ PastClone => (clone_cmd \in ran <=> ~snap.dir)
            /\ PastBootstrap => (bootstrap_cmd \in ran <=> ~snap.exe)
            /\ (snap.dir /\ snap.exe) => (ran = {} /\ vcdir /\ vcexe)
            /\ prev => (snap.dir /\ snap.exe /\ ran = {})

\* a second install after one that cloned and bootstrapped has come to its
\* end without a command
C7_Witness ==
    /\ prev /\ options.action = "install" /\ status = "done" /\ log = <<>>

-----------------------------------------------------------------------------
(* Properties of the fix-ups, under SpecFix *)

\* C10: a fix-up raises no error whatever the directory holds; for each of
\* its library names it moves the file with the debug suffix to the name
\* without it when that file is there, and leaves both names as they were
\* when it is not; it touches no other file; afterwards no file with the
\* suffix is left, and a second application changes nothing.
C10_FixUp ==
    napplied >= 1 =>
        LET names == FixLibNames(fix_dep) IN
        /\ fexc = "none"
        /\ \A i \in 1..Len(names) :
              LET orig_lib == lib_deb_path \o <<names[i], FixSuffix(fix_dep)>>
                  targ_lib == lib_deb_path \o <<names[i], ".lib">>
              IN  /\ files[orig_lib] = NoFile
                  /\ files[targ_lib] = IF before_files[orig_lib] # NoFile
                                       THEN before_files[orig_lib]
                                       ELSE before_files[targ_lib]
        /\ files[other_lib] = before_files[other_lib]
        /\ DOMAIN files = DOMAIN before_files
        /\ napplied >= 2 => files = before_files

\* the bullet3 fix-up, applied twice to a directory where one library is
\* there with and without the suffix and another one has no suffixed file
C10_Witness ==
    /\ napplied = 2 /\ fix_dep = S("bullet3")
    /\ orig_files[lib_deb_path \o <<"BulletCollision", "_Debug.lib">>] = <<S("new")>>
    /\ orig_files[lib_deb_path \o <<"BulletCollision", ".lib">>] = <<S("old")>>
    /\ orig_files[lib_deb_path \o <<"LinearMath", "_Debug.lib">>] = NoFile
    /\ files[lib_deb_path \o <<"BulletCollision", ".lib">>] = <<S("new")>>

-----------------------------------------------------------------------------
(* Properties of copy, under SpecCopy *)

\* the library files with a debug suffix that the fix-up of dep renames
SuffixedLibs(dep) ==
    CASE dep = S("bullet3") ->
            { lib_deb_path \o <<n, "_Debug.lib">> : n \in Range(bullet3_lib_names) }
      [] dep = S("sdl2") ->
            { lib_deb_path \o <<n, "d.lib">> : n \in Range(SDL2_lib_names) }
      [] OTHER -> {}

\* C8: a copy run copies each package into its destination, applies the
\* fix-up of its name, and deletes CONTROL and BUILD_INFO from the
\* destination; a manifest file that is not there when it is to be deleted
\* raises no error; after a run that came to its end, no destination holds
\* CONTROL or BUILD_INFO, or a library file a fix-up renames.
C8_CopyFixDelete ==
    (Dispatched /\ options.action = "copy") =>
        /\ ~(status = "raised" /\ exc = "FileNotFoundError")
        /\ status = "done" =>
              \A i \in 1..Len(triplets) :
                 LET d == outfs[Triplet_str(triplets[i])]
                 IN  /\ d.exists
                     /\ d.tree[CONTROL] = NoFile
                     /\ d.tree[BUILD_INFO] = NoFile
                     /\ \A j \in 1..Len(options.what) :
                           \A p \in SuffixedLibs(options.what[j]) :
                              d.tree[p] = NoFile

-----------------------------------------------------------------------------
(* Specifications *)

InitSpecTriplet == InitTriplet /\ ListIdle /\ MainIdle /\ FixIdle /\ CopyIdle
SpecTriplet == InitSpecTriplet /\ [][NextTriplet]_vars

InitSpecList == InitList /\ TripIdle /\ MainIdle /\ FixIdle /\ CopyIdle
SpecList == InitSpecList /\ [][NextList]_vars

InitSpecMain == InitMain /\ TripIdle /\ ListIdle /\ FixIdle /\ CopyIdle
SpecMain == InitSpecMain /\ [][NextMain]_vars

InitSpecFix == InitFix /\ TripIdle /\ ListIdle /\ MainIdle /\ CopyIdle
SpecFix == InitSpecFix /\ [][NextFix]_vars

InitSpecCopy == InitCopy /\ TripIdle /\ ListIdle /\ FixIdle
SpecCopy == InitSpecCopy /\ [][NextCopy]_vars

=============================================================================
